---------------------------- MODULE Spec2Model ----------------------------
(***************************************************************************)
(* A model of CryptoHalHidl (drm/libmediadrm/CryptoHalHidl.cpp): the shim  *)
(* between the framework's crypto API and a remote HIDL ICryptoPlugin.     *)
(*                                                                         *)
(* The object's fields are the variables mFactories, mInitCheck, mPlugin,  *)
(* mPluginV1_2, mHeapSeqNum, mHeapSizes and mLock.  Every public method is *)
(* first written as an operator that, read in the current state, yields    *)
(* the fields after the call, the value returned and the remote plugin     *)
(* calls issued.  Spec runs the methods one call at a time (one caller);   *)
(* SpecMT runs them from several threads with the lock steps of the code.  *)
(* SpecCheck applies checkSharedBuffer to every buffer of the word width.  *)
(***************************************************************************)
EXTENDS Integers, Sequences, FiniteSets, TLC

VARIABLES
    mFactories,   \* Vector<sp<ICryptoFactory>>: per factory, the schemes it supports
    mInitCheck,   \* status_t
    mPlugin,      \* sp<ICryptoPlugin>
    mPluginV1_2,  \* sp<drm::V1_2::ICryptoPlugin>
    mHeapSeqNum,  \* int32_t
    mHeapSizes,   \* KeyedVector<int32_t, size_t>
    mLock,        \* Mutex: 0 when unlocked, else the thread that locked it
    numCreates,   \* createPlugin calls so far that found a factory supporting the
                  \* uuid and asked it for a plugin (the others touch nothing)
    crashed,      \* the process died (call through a null sp, overflow trap)
    lastOp,       \* the last completed call of the single caller: arguments, result
    issued,       \* the values successful setHeapBase calls returned, in order
    cleared,      \* the sequence numbers clearHeapBase removed from the registry
    pc,           \* per thread: where it is in its call
    cur,          \* per thread: the call in progress and its locals
    badUnlock     \* an unlock hit a mutex the unlocking thread did not hold

objVars == <<mFactories, mInitCheck, mPlugin, mPluginV1_2, mHeapSeqNum, mHeapSizes>>
histVars == <<lastOp, issued, cleared>>
thrVars == <<mLock, pc, cur, badUnlock>>
vars == <<mFactories, mInitCheck, mPlugin, mPluginV1_2, mHeapSeqNum, mHeapSizes,
          mLock, numCreates, crashed, lastOp, issued, cleared, pc, cur, badUnlock>>

---------------------------------------------------------------------------
(* Bounds of the model. *)

SeqMax == 3        \* value given to INT32_MAX (mHeapSeqNum, bufferId)
WordBits == 3      \* width given to size_t (offset, size, heap size)
MaxCreates == 2    \* createPlugin calls in one run that ask a factory
MaxLiveHeaps == 2  \* heaps registered at one time
NumThreads == 2    \* threads calling into one object (SpecMT)

INT32_MAX == SeqMax
INT32_MIN == 0 - INT32_MAX - 1
SeqMod == 2 * (INT32_MAX + 1)   \* the number of uint32_t values
WordMod == 2 ^ WordBits
SIZE_MAX == WordMod - 1

---------------------------------------------------------------------------
(* status_t values (utils/Errors.h, MediaErrors.h). *)

OK == 0
NO_INIT == -19
DEAD_OBJECT == -32
ERROR_UNSUPPORTED == -1010
UNKNOWN_ERROR == -2147483647 - 1
ERROR_DRM_NO_LICENSE == -2001
ERROR_DRM_CANNOT_HANDLE == -2006

(* DrmUtils::toStatusT on a HAL Status (V1_0 and V1_2 overloads). *)
toStatusT(status) ==
    CASE status = "OK" -> OK
      [] status = "ERROR_DRM_NO_LICENSE" -> ERROR_DRM_NO_LICENSE
      [] status = "ERROR_DRM_CANNOT_HANDLE" -> ERROR_DRM_CANNOT_HANDLE
      [] OTHER -> UNKNOWN_ERROR

---------------------------------------------------------------------------
(* Plugins.  A plugin a factory created is named by the createPlugin call  *)
(* and the factory that made it; v12 tells whether it implements the 1.2   *)
(* interface.  NULL is the null sp.                                        *)

NULL == [call |-> 0, factory |-> 0, v12 |-> FALSE]

(* drm::V1_2::ICryptoPlugin::castFrom *)
castFrom(p) == IF p.v12 THEN p ELSE NULL

(* static_cast<int32_t>(uint32_t) and back, at the model's width *)
toInt32(u) == IF u > INT32_MAX THEN u - SeqMod ELSE u
toUint32(s) == IF s < 0 THEN s + SeqMod ELSE s

(* KeyedVector<int32_t, size_t> *)
indexOfKey(m, k) == IF k \in DOMAIN m THEN Cardinality({j \in DOMAIN m : j < k}) ELSE -1
valueFor(m, k) == m[k]
add(m, k, v) == [j \in DOMAIN m \cup {k} |-> IF j = k THEN v ELSE m[j]]
(* the mutant: every entry is removed *)
removeItem_All(m, k) == [j \in {} |-> 0]

removeItem(m, k) == [j \in DOMAIN m \ {k} |-> m[j]]
EmptyHeaps == [j \in {} |-> 0]

(* A remote call on a plugin, as it is recorded. *)
NoWire == [secure |-> FALSE, mode |-> "", pattern |-> <<0, 0>>, subSamples |-> <<>>,
           source |-> [bufferId |-> 0, offset |-> 0, size |-> 0],
           dstType |-> "", destination |-> [bufferId |-> 0, offset |-> 0, size |-> 0]]
NullHeap == -1
PluginCall(fn, target, bufferId, mem, wire) ==
    [fn |-> fn, target |-> target, bufferId |-> bufferId, mem |-> mem, wire |-> wire]

(* The fields as they are, with nothing returned and nothing called. *)
Same == [init |-> mInitCheck, plugin |-> mPlugin, v12 |-> mPluginV1_2,
         seq |-> mHeapSeqNum, heaps |-> mHeapSizes,
         ret |-> 0, calls |-> <<>>, made |-> <<>>, crash |-> FALSE]

---------------------------------------------------------------------------
(* CryptoHalHidl::CryptoHalHidl *)

(* No factory found; two factories, scheme 1 supported by both, scheme 2 by *)
(* the second only, scheme 3 by neither.                                   *)
FactoryConfigs == { <<>>, <<{1}, {1, 2}>> }
UUIDs == {1, 2, 3}

InitCheckAtConstruction(factories) ==
    IF Len(factories) = 0 THEN ERROR_UNSUPPORTED ELSE NO_INIT

(* status_t CryptoHalHidl::initCheck() const *)
initCheck == mInitCheck

---------------------------------------------------------------------------
(* createPlugin and makeCryptoPlugin *)

(* What the remote factory does with createPlugin:                         *)
(*   ok10 / ok12: the callback gets Status::OK and a 1.0 / 1.2 plugin      *)
(*   fail: the callback gets a status other than OK                        *)
(*   dead: the transaction fails and the callback is not run               *)
CreateOutcomes == {"ok10", "ok12", "fail", "dead"}

(* mFactories[i]->isCryptoSchemeSupported(uuid) *)
isCryptoSchemeSupported(f, uuid) == uuid \in f

(* some factory of mFactories supports the uuid *)
Supported(uuid) == \E i \in 1 .. Len(mFactories) : isCryptoSchemeSupported(mFactories[i], uuid)

(* What each factory would do with createPlugin(uuid), for the call's loop: *)
(* a factory that does not support the uuid is not asked.                  *)
RemoteCreates(uuid, outcomes) ==
    { outs \in [1 .. Len(mFactories) -> outcomes \cup {"unasked"}] :
          \A i \in 1 .. Len(mFactories) :
              outs[i] = "unasked" <=> ~isCryptoSchemeSupported(mFactories[i], uuid) }

makeCryptoPlugin(i, out, callNo, init) ==
    LET plugin == IF out \in {"ok10", "ok12"}
                  THEN [call |-> callNo, factory |-> i, v12 |-> (out = "ok12")]
                  ELSE NULL
    IN  [plugin |-> plugin, init |-> IF out = "dead" THEN DEAD_OBJECT ELSE init]

RECURSIVE createPluginLoop(_, _, _, _, _)
createPluginLoop(i, uuid, outs, callNo, st) ==
    IF i > Len(mFactories) THEN st
    ELSE IF isCryptoSchemeSupported(mFactories[i], uuid)
         THEN LET mk == makeCryptoPlugin(i, outs[i], callNo, st.init)
              IN  createPluginLoop(i + 1, uuid, outs, callNo,
                      [st EXCEPT !.plugin = mk.plugin,
                                 !.v12 = IF mk.plugin # NULL THEN castFrom(mk.plugin)
                                         ELSE st.v12,
                                 !.init = mk.init,
                                 !.made = IF mk.plugin # NULL
                                          THEN Append(st.made, mk.plugin) ELSE st.made])
         ELSE createPluginLoop(i + 1, uuid, outs, callNo, st)

(* the mutant: a failed creation reported as UNKNOWN_ERROR *)
createPluginStatus_Unknown(st) ==
    IF st.init = NO_INIT
    THEN (IF st.plugin = NULL THEN UNKNOWN_ERROR ELSE OK)
    ELSE st.init

createPluginStatus(st) ==
    IF st.init = NO_INIT
    THEN (IF st.plugin = NULL THEN ERROR_UNSUPPORTED ELSE OK)
    ELSE st.init

createPlugin(uuid, outs, callNo) ==
    LET st == createPluginLoop(1, uuid, outs, callNo, Same)
        init == createPluginStatus(st)
    IN  [st EXCEPT !.init = init, !.ret = init]

---------------------------------------------------------------------------
(* destroyPlugin *)

(* the mutant: no test of mInitCheck *)
destroyPlugin_Unguarded ==
    [Same EXCEPT !.plugin = NULL, !.v12 = NULL, !.init = NO_INIT, !.ret = OK]

destroyPlugin ==
    IF mInitCheck # OK THEN [Same EXCEPT !.ret = mInitCheck]
    ELSE [Same EXCEPT !.plugin = NULL, !.v12 = NULL, !.init = NO_INIT, !.ret = OK]

---------------------------------------------------------------------------
(* A call through mPlugin.  operator-> of a null sp yields a null object   *)
(* pointer and the virtual call through it faults: the process dies.       *)

Crash == [Same EXCEPT !.crash = TRUE]

(* requiresSecureDecoderComponent: remote is <<transaction ok, value>> *)
requiresSecureDecoderComponent(remote) ==
    IF mInitCheck # OK THEN [Same EXCEPT !.ret = 0]
    ELSE IF mPlugin = NULL THEN Crash
    ELSE LET call == PluginCall("requiresSecureDecoderComponent", mPlugin, 0, NullHeap, NoWire)
         IN  [Same EXCEPT !.calls = <<call>>,
                          !.ret = IF ~remote[1] THEN 0 ELSE (IF remote[2] THEN 1 ELSE 0)]

(* notifyResolution *)
notifyResolution ==
    IF mInitCheck # OK THEN Same
    ELSE IF mPlugin = NULL THEN Crash
    ELSE [Same EXCEPT !.calls = <<PluginCall("notifyResolution", mPlugin, 0, NullHeap, NoWire)>>]

(* setMediaDrmSession: remote is <<transaction ok, Status>> *)
setMediaDrmSession(remote) ==
    IF mInitCheck # OK THEN [Same EXCEPT !.ret = mInitCheck]
    ELSE IF mPlugin = NULL THEN Crash
    ELSE [Same EXCEPT !.calls = <<PluginCall("setMediaDrmSession", mPlugin, 0, NullHeap, NoWire)>>,
                      !.ret = IF remote[1] THEN toStatusT(remote[2]) ELSE DEAD_OBJECT]

---------------------------------------------------------------------------
(* setHeapBase and clearHeapBase.  A heap is its size; NullHeap the null   *)
(* sp<HidlMemory>.                                                         *)

(* The test made before the lock is taken. *)
setHeapBaseRejects(heap) == heap = NullHeap \/ mHeapSeqNum < 0

(* mHeapSeqNum++ at INT32_MAX overflows a signed int: the build either     *)
(* wraps it or traps.                                                      *)
OverflowOutcomes == {"wrap", "trap"}
OverflowAt(n) == IF n = INT32_MAX THEN OverflowOutcomes ELSE {"wrap"}

(* the mutant: the counter is read and not advanced *)
postIncrement_Stuck(n) == n

postIncrement(n) == IF n = INT32_MAX THEN INT32_MIN ELSE n + 1

(* The part of setHeapBase that runs under the lock. *)
setHeapBaseLocked(heap, ovf) ==
    IF mInitCheck # OK THEN [Same EXCEPT !.ret = -1]
    ELSE IF mHeapSeqNum = INT32_MAX /\ ovf = "trap" THEN Crash
    ELSE LET seqNum == mHeapSeqNum
             bufferId == toUint32(seqNum)
             heaps == add(mHeapSizes, seqNum, heap)
         IN  IF mPlugin = NULL
             THEN [Crash EXCEPT !.seq = postIncrement(seqNum), !.heaps = heaps]
             ELSE [Same EXCEPT !.seq = postIncrement(seqNum), !.heaps = heaps,
                               !.calls = <<PluginCall("setSharedBufferBase", mPlugin,
                                                      bufferId, heap, NoWire)>>,
                               !.ret = seqNum]

setHeapBase(heap, ovf) ==
    IF setHeapBaseRejects(heap) THEN [Same EXCEPT !.ret = -1]
    ELSE setHeapBaseLocked(heap, ovf)

clearHeapBase(seqNum) ==
    LET index == indexOfKey(mHeapSizes, seqNum)
    IN  IF index >= 0
        THEN [Same EXCEPT !.calls = IF mPlugin # NULL
                                    THEN <<PluginCall("setSharedBufferBase", mPlugin,
                                                      toUint32(seqNum), NullHeap, NoWire)>>
                                    ELSE <<>>,
                          !.heaps = removeItem(mHeapSizes, seqNum)]
        ELSE Same

---------------------------------------------------------------------------
(* checkSharedBuffer: size_t arithmetic is modulo 2^WordBits. *)

(* the mutant: the test of the sum alone, without the overflow test *)
checkSharedBuffer_SumOnly(buffer) ==
    LET seqNum == toInt32(buffer.bufferId)
    IN  IF indexOfKey(mHeapSizes, seqNum) < 0 THEN UNKNOWN_ERROR
        ELSE IF valueFor(mHeapSizes, seqNum) < (buffer.offset + buffer.size) % WordMod
             THEN UNKNOWN_ERROR
             ELSE OK

checkSharedBuffer(buffer) ==
    LET seqNum == toInt32(buffer.bufferId)
    IN  IF indexOfKey(mHeapSizes, seqNum) < 0 THEN UNKNOWN_ERROR
        ELSE LET heapSize == valueFor(mHeapSizes, seqNum)
             IN  IF heapSize < (buffer.offset + buffer.size) % WordMod
                    \/ SIZE_MAX - buffer.offset < buffer.size
                 THEN UNKNOWN_ERROR
                 ELSE OK

---------------------------------------------------------------------------
(* decrypt *)

(* the mutant: kMode_AES_WV sent as AES_CBC *)
toHidlMode_WvAsCbc(mode) ==
    CASE mode = "kMode_Unencrypted" -> "UNENCRYPTED"
      [] mode = "kMode_AES_CTR" -> "AES_CTR"
      [] mode = "kMode_AES_WV" -> "AES_CBC"
      [] mode = "kMode_AES_CBC" -> "AES_CBC"
      [] OTHER -> ""

(* CryptoPlugin::Mode to drm::V1_0::Mode; "" stands for the default branch. *)
toHidlMode(mode) ==
    CASE mode = "kMode_Unencrypted" -> "UNENCRYPTED"
      [] mode = "kMode_AES_CTR" -> "AES_CTR"
      [] mode = "kMode_AES_WV" -> "AES_CBC_CTS"
      [] mode = "kMode_AES_CBC" -> "AES_CBC"
      [] OTHER -> ""

(* hPattern: <<encryptBlocks, skipBlocks>> from <<mEncryptBlocks, mSkipBlocks>> *)
toHidlPattern(pattern) == <<pattern[1], pattern[2]>>

(* the loop that fills stdSubSamples: one push_back per input entry,       *)
(* <<numBytesOfClearData, numBytesOfEncryptedData>>                        *)
RECURSIVE toHidlSubSamples(_, _, _)
toHidlSubSamples(subSamples, i, acc) ==
    IF i > Len(subSamples) THEN acc
    ELSE toHidlSubSamples(subSamples, i + 1,
                          Append(acc, <<subSamples[i][1], subSamples[i][2]>>))

(* the mutant: the destination's type is tested, its bounds are not *)
checkDestination_TypeOnly(in) ==
    IF in.dstType \in {"SHARED_MEMORY", "NATIVE_HANDLE"} THEN OK ELSE UNKNOWN_ERROR

(* the mutant: a destination of any type but SHARED_MEMORY is accepted *)
checkDestination_AnyType(in) ==
    IF in.dstType = "SHARED_MEMORY" THEN checkSharedBuffer(in.destination) ELSE OK

(* the test of hDestination.type, with the destination's bounds check *)
checkDestination(in) ==
    IF in.dstType = "SHARED_MEMORY" THEN checkSharedBuffer(in.destination)
    ELSE IF in.dstType = "NATIVE_HANDLE" THEN OK
    ELSE UNKNOWN_ERROR

(* decrypt up to mLock.unlock(): ok tells whether the remote call follows; *)
(* ret is the value returned when it does not.                             *)
decryptChecks(in) ==
    IF mInitCheck # OK THEN [ok |-> FALSE, ret |-> mInitCheck, wire |-> NoWire]
    ELSE LET hMode == toHidlMode(in.mode)
         IN  IF hMode = "" THEN [ok |-> FALSE, ret |-> UNKNOWN_ERROR, wire |-> NoWire]
             ELSE LET hPattern == toHidlPattern(in.pattern)
                      hSubSamples == toHidlSubSamples(in.subSamples, 1, <<>>)
                      dstStatus == checkDestination(in)
                      secure == in.dstType # "SHARED_MEMORY"
                      status == checkSharedBuffer(in.source)
                  IN  IF dstStatus # OK
                      THEN [ok |-> FALSE, ret |-> dstStatus, wire |-> NoWire]
                      ELSE IF status # OK
                      THEN [ok |-> FALSE, ret |-> status, wire |-> NoWire]
                      ELSE [ok |-> TRUE, ret |-> OK,
                            wire |-> [secure |-> secure, mode |-> hMode,
                                      pattern |-> hPattern, subSamples |-> hSubSamples,
                                      source |-> in.source, dstType |-> in.dstType,
                                      destination |-> in.destination]]

(* What the remote plugin does with decrypt / decrypt_1_2:                 *)
(* [transport: the transaction succeeded, cb: the callback ran,            *)
(*  status, bytes: what the callback was given]                            *)
NoCallback == [transport |-> FALSE, cb |-> FALSE, status |-> "", bytes |-> 0]
DecryptOutcomes ==
    { NoCallback,
      [transport |-> TRUE, cb |-> FALSE, status |-> "", bytes |-> 0],
      [transport |-> TRUE, cb |-> TRUE, status |-> "OK", bytes |-> 3],
      [transport |-> TRUE, cb |-> TRUE, status |-> "ERROR_DRM_NO_LICENSE", bytes |-> 3],
      [transport |-> FALSE, cb |-> TRUE, status |-> "OK", bytes |-> 3] }

(* the mutant: the callback's status is returned whatever the transport did *)
decryptCall_IgnoreTransport(wire, out) ==
    IF mPluginV1_2 = NULL /\ mPlugin = NULL THEN Crash
    ELSE LET call == IF mPluginV1_2 # NULL
                     THEN PluginCall("decrypt_1_2", mPluginV1_2, 0, NullHeap, wire)
                     ELSE PluginCall("decrypt", mPlugin, 0, NullHeap, wire)
             bytesWritten == IF out.cb /\ out.status = "OK" THEN out.bytes ELSE 0
             err == IF out.cb THEN toStatusT(out.status) ELSE UNKNOWN_ERROR
         IN  [Same EXCEPT !.calls = <<call>>,
                          !.ret = IF err = OK THEN bytesWritten ELSE err]

(* decrypt from mLock.unlock() on: the dispatch on mPluginV1_2, the        *)
(* callback and the value returned.                                        *)
decryptCall(wire, out) ==
    IF mPluginV1_2 = NULL /\ mPlugin = NULL THEN Crash
    ELSE LET call == IF mPluginV1_2 # NULL
                     THEN PluginCall("decrypt_1_2", mPluginV1_2, 0, NullHeap, wire)
                     ELSE PluginCall("decrypt", mPlugin, 0, NullHeap, wire)
             bytesWritten == IF out.cb /\ out.status = "OK" THEN out.bytes ELSE 0
             cbErr == IF out.cb THEN toStatusT(out.status) ELSE UNKNOWN_ERROR
             err == IF out.transport THEN cbErr ELSE DEAD_OBJECT
         IN  [Same EXCEPT !.calls = <<call>>,
                          !.ret = IF err = OK THEN bytesWritten ELSE err]

decrypt(in, out) ==
    LET chk == decryptChecks(in)
    IN  IF chk.ok THEN decryptCall(chk.wire, out) ELSE [Same EXCEPT !.ret = chk.ret]

---------------------------------------------------------------------------
(* The inputs the calls are tried with. *)

Threads == 1 .. NumThreads
HeapSizes == {2, SIZE_MAX}
Heaps == {NullHeap} \cup HeapSizes
SeqNums == -1 .. INT32_MAX
(* sources: id 0 with each extent; an id that is never registered (-1 as   *)
(* int32_t)                                                                *)
(* extents <<offset, size>>: fits every heap; fits the large heap only; the sum    *)
(* wraps to 0 in size_t                                                    *)
Extents == { <<0, 2>>, <<1, 2>>, <<1, SIZE_MAX>> }
Buffers == { [bufferId |-> 0, offset |-> e[1], size |-> e[2]] : e \in Extents }
           \cup { [bufferId |-> SeqMod - 1, offset |-> 0, size |-> 2] }
(* destinations: in bounds of every heap; overflowing; never registered    *)
DstBuffers == { [bufferId |-> 0, offset |-> 0, size |-> 2],
                [bufferId |-> 0, offset |-> 1, size |-> SIZE_MAX],
                [bufferId |-> SeqMod - 1, offset |-> 0, size |-> 2] }
Modes == {"kMode_Unencrypted", "kMode_AES_CTR", "kMode_AES_WV", "kMode_AES_CBC", "kMode_Other"}
Patterns == { <<0, 0>>, <<1, 9>> }
SubSampleLists == { <<>>, << <<1, 2>> >>, << <<1, 2>>, <<3, 0>> >> }
BufferTypes == {"SHARED_MEMORY", "NATIVE_HANDLE", "OTHER"}
Buffer0 == [bufferId |-> 0, offset |-> 0, size |-> 2]

DecIn(mode, pattern, subSamples, source, dstType, destination) ==
    [mode |-> mode, pattern |-> pattern, subSamples |-> subSamples, source |-> source,
     dstType |-> dstType, destination |-> destination]
NoDecIn == DecIn("", <<0, 0>>, <<>>, Buffer0, "", Buffer0)

(* One forwarded decrypt, AES_CTR from Buffer0 to a native handle, and the *)
(* inputs that differ from it in one respect: each source; each shared     *)
(* or native destination, each source with a shared destination; an unknown *)
(* destination type; each mode; each pattern and sub-sample list.          *)
DecIn0(source, dstType, destination) ==
    DecIn("kMode_AES_CTR", <<1, 9>>, << <<1, 2>> >>, source, dstType, destination)

DecryptInputs ==
    { DecIn0(s, "NATIVE_HANDLE", Buffer0) : s \in Buffers }
    \cup { DecIn0(Buffer0, "SHARED_MEMORY", d) : d \in DstBuffers }
    \cup { DecIn0(Buffer0, "NATIVE_HANDLE", d) : d \in DstBuffers }
    \cup { DecIn0(s, "SHARED_MEMORY", Buffer0) : s \in Buffers }
    \cup { DecIn0(Buffer0, "OTHER", Buffer0) }
    \cup { DecIn(m, <<1, 9>>, << <<1, 2>> >>, Buffer0, "NATIVE_HANDLE", Buffer0) : m \in Modes }
    \cup { DecIn("kMode_AES_WV", p, << <<1, 2>>, <<3, 0>> >>, Buffer0, "NATIVE_HANDLE", Buffer0) :
              p \in Patterns }
    \cup { DecIn("kMode_AES_CBC", <<1, 9>>, ss, Buffer0, "NATIVE_HANDLE", Buffer0) :
              ss \in SubSampleLists }

SecureRemotes == { <<FALSE, FALSE>>, <<TRUE, FALSE>>, <<TRUE, TRUE>> }
SessionRemotes == { <<FALSE, "OK">>, <<TRUE, "OK">>, <<TRUE, "ERROR_DRM_CANNOT_HANDLE">> }

---------------------------------------------------------------------------
(* The state after construction. *)

Pre == [init |-> mInitCheck, seq |-> mHeapSeqNum]

Op(op, uuid, heap, seqNum, din, out, r) ==
    [op |-> op, uuid |-> uuid, heap |-> heap, seqNum |-> seqNum, din |-> din, out |-> out,
     pre |-> Pre, ret |-> r.ret, calls |-> r.calls, made |-> r.made]

(* A thread's call: its arguments, the wire form decrypt built before it   *)
(* unlocked, the value it returned and the remote calls it issued.         *)
Call(op, uuid, heap, seqNum, din) ==
    [op |-> op, uuid |-> uuid, heap |-> heap, seqNum |-> seqNum, din |-> din,
     wire |-> NoWire, ret |-> 0, calls |-> <<>>]
NoCall == Call("", 0, NullHeap, 0, NoDecIn)

Constructed(factories) ==
    /\ mFactories = factories
    /\ mInitCheck = InitCheckAtConstruction(factories)
    /\ mPlugin = NULL
    /\ mPluginV1_2 = NULL
    /\ mHeapSeqNum = 0
    /\ mHeapSizes = EmptyHeaps
    /\ mLock = 0
    /\ numCreates = 0
    /\ crashed = FALSE
    /\ lastOp = Op("construct", 0, NullHeap, 0, NoDecIn, NoCallback, Same)
    /\ issued = <<>>
    /\ cleared = {}
    /\ pc = [t \in Threads |-> "idle"]
    /\ cur = [t \in Threads |-> NoCall]
    /\ badUnlock = FALSE

Init == \E factories \in FactoryConfigs : Constructed(factories)

(* The fields take the values the call left. *)
Apply(r) ==
    /\ mInitCheck' = r.init
    /\ mPlugin' = r.plugin
    /\ mPluginV1_2' = r.v12
    /\ mHeapSeqNum' = r.seq
    /\ mHeapSizes' = r.heaps
    /\ crashed' = r.crash
    /\ UNCHANGED mFactories

(* A bound of the model, not of the code: the registry holds at most       *)
(* MaxLiveHeaps heaps.                                                     *)
WithinLiveHeaps(r) ==
    r.heaps = mHeapSizes \/ Cardinality(DOMAIN r.heaps) <= MaxLiveHeaps

---------------------------------------------------------------------------
(* One caller: each call runs from its lock to its return before the next. *)

CreatePlugin ==
    /\ ~crashed
    /\ \E uuid \in UUIDs : \E outs \in RemoteCreates(uuid, CreateOutcomes) :
          LET r == createPlugin(uuid, outs, numCreates + 1)
          IN  /\ Supported(uuid) => numCreates < MaxCreates
              /\ Apply(r)
              /\ lastOp' = Op("createPlugin", uuid, NullHeap, 0, NoDecIn, NoCallback, r)
              /\ numCreates' = IF Supported(uuid) THEN numCreates + 1 ELSE numCreates
    /\ UNCHANGED <<issued, cleared, thrVars>>

DestroyPlugin ==
    /\ ~crashed
    /\ LET r == destroyPlugin
       IN  /\ Apply(r)
           /\ lastOp' = Op("destroyPlugin", 0, NullHeap, 0, NoDecIn, NoCallback, r)
    /\ UNCHANGED <<numCreates, issued, cleared, thrVars>>

RequiresSecureDecoderComponent ==
    /\ ~crashed
    /\ \E remote \in SecureRemotes :
          LET r == requiresSecureDecoderComponent(remote)
          IN  /\ Apply(r)
              /\ lastOp' = Op("requiresSecureDecoderComponent", 0, NullHeap, 0, NoDecIn,
                              NoCallback, r)
    /\ UNCHANGED <<numCreates, issued, cleared, thrVars>>

SetHeapBase ==
    /\ ~crashed
    /\ \E heap \in Heaps, ovf \in OverflowAt(mHeapSeqNum) :
          LET r == setHeapBase(heap, ovf)
          IN  /\ WithinLiveHeaps(r)
              /\ Apply(r)
              /\ lastOp' = Op("setHeapBase", 0, heap, 0, NoDecIn, NoCallback, r)
              /\ issued' = IF ~r.crash /\ r.ret # -1 THEN Append(issued, r.ret) ELSE issued
    /\ UNCHANGED <<numCreates, cleared, thrVars>>

ClearHeapBase ==
    /\ ~crashed
    /\ \E seqNum \in SeqNums :
          LET r == clearHeapBase(seqNum)
          IN  /\ Apply(r)
              /\ lastOp' = Op("clearHeapBase", 0, NullHeap, seqNum, NoDecIn, NoCallback, r)
              /\ cleared' = IF seqNum \in DOMAIN mHeapSizes THEN cleared \cup {seqNum}
                            ELSE cleared
    /\ UNCHANGED <<numCreates, issued, thrVars>>

Decrypt ==
    /\ ~crashed
    /\ \E in \in DecryptInputs :
          \E out \in IF decryptChecks(in).ok THEN DecryptOutcomes ELSE {NoCallback} :
              LET r == decrypt(in, out)
              IN  /\ Apply(r)
                  /\ lastOp' = Op("decrypt", 0, NullHeap, 0, in, out, r)
    /\ UNCHANGED <<numCreates, issued, cleared, thrVars>>

NotifyResolution ==
    /\ ~crashed
    /\ LET r == notifyResolution
       IN  /\ Apply(r)
           /\ lastOp' = Op("notifyResolution", 0, NullHeap, 0, NoDecIn, NoCallback, r)
    /\ UNCHANGED <<numCreates, issued, cleared, thrVars>>

SetMediaDrmSession ==
    /\ ~crashed
    /\ \E remote \in SessionRemotes :
          LET r == setMediaDrmSession(remote)
          IN  /\ Apply(r)
              /\ lastOp' = Op("setMediaDrmSession", 0, NullHeap, 0, NoDecIn, NoCallback, r)
    /\ UNCHANGED <<numCreates, issued, cleared, thrVars>>

Next ==
    \/ CreatePlugin
    \/ DestroyPlugin
    \/ RequiresSecureDecoderComponent
    \/ SetHeapBase
    \/ ClearHeapBase
    \/ Decrypt
    \/ NotifyResolution
    \/ SetMediaDrmSession

Spec == Init /\ [][Next]_vars

---------------------------------------------------------------------------
(* Several threads.  A call is the steps                                   *)
(*   Begin        the call is made (setHeapBase tests its argument and the *)
(*                counter before it takes the lock)                        *)
(*   Lock         Mutex::Autolock autoLock(mLock)                          *)
(*   Body         the method under the lock, to its return, where the      *)
(*                Autolock goes out of scope                               *)
(* and for a decrypt that passed its checks                                *)
(*   Body         the checks, then mLock.unlock()                          *)
(*   Remote       the remote decrypt / decrypt_1_2 and its callback        *)
(*   Return       the return, where the Autolock goes out of scope         *)

MTDecryptInputs ==
    { DecIn("kMode_AES_CTR", <<1, 9>>, << <<1, 2>> >>, Buffer0, "NATIVE_HANDLE", Buffer0),
      DecIn("kMode_Other", <<1, 9>>, << <<1, 2>> >>, Buffer0, "NATIVE_HANDLE", Buffer0) }
MTCalls ==
    { Call("createPlugin", 1, NullHeap, 0, NoDecIn),
      Call("destroyPlugin", 0, NullHeap, 0, NoDecIn),
      Call("requiresSecureDecoderComponent", 0, NullHeap, 0, NoDecIn),
      Call("setHeapBase", 0, NullHeap, 0, NoDecIn),
      Call("setHeapBase", 0, 2, 0, NoDecIn),
      Call("clearHeapBase", 0, NullHeap, 0, NoDecIn),
      Call("notifyResolution", 0, NullHeap, 0, NoDecIn),
      Call("setMediaDrmSession", 0, NullHeap, 0, NoDecIn) }
    \cup { Call("decrypt", 0, NullHeap, 0, in) : in \in MTDecryptInputs }
MTCreateOutcomes == {"ok12", "fail"}
MTDecryptOutcomes == { [transport |-> TRUE, cb |-> TRUE, status |-> "OK", bytes |-> 3] }

(* The thread is between its lock acquisition and its return. *)
inside(t) == pc[t] \in {"locked", "remote", "returning"}

(* Mutex::unlock by thread t.  Unlocking a mutex the thread does not hold  *)
(* is undefined for the default (non error-checking) pthread mutex: the    *)
(* mutex is released whoever holds it, or it is left as it is.             *)
Unlock(t) ==
    IF mLock = t
    THEN mLock' = 0 /\ UNCHANGED badUnlock
    ELSE mLock' \in {0, mLock} /\ badUnlock' = TRUE

(* What the method does under the lock, for every method but decrypt. *)
bodyOf(c, outs, callNo, ovf) ==
    CASE c.op = "createPlugin" -> createPlugin(c.uuid, outs, callNo)
      [] c.op = "destroyPlugin" -> destroyPlugin
      [] c.op = "requiresSecureDecoderComponent" -> requiresSecureDecoderComponent(<<TRUE, TRUE>>)
      [] c.op = "setHeapBase" -> setHeapBaseLocked(c.heap, ovf)
      [] c.op = "clearHeapBase" -> clearHeapBase(c.seqNum)
      [] c.op = "notifyResolution" -> notifyResolution
      [] c.op = "setMediaDrmSession" -> setMediaDrmSession(<<TRUE, "OK">>)

T_Begin(t) ==
    /\ ~crashed /\ pc[t] = "idle"
    /\ \E c \in MTCalls :
          /\ (c.op = "createPlugin" /\ Supported(c.uuid)) => numCreates < MaxCreates
          /\ IF c.op = "setHeapBase" /\ setHeapBaseRejects(c.heap)
             THEN cur' = [cur EXCEPT ![t] = [c EXCEPT !.ret = -1]] /\ UNCHANGED pc
             ELSE cur' = [cur EXCEPT ![t] = c] /\ pc' = [pc EXCEPT ![t] = "waiting"]
    /\ UNCHANGED <<objVars, histVars, mLock, badUnlock, numCreates, crashed>>

T_Lock(t) ==
    /\ ~crashed /\ pc[t] = "waiting" /\ mLock = 0
    /\ mLock' = t
    /\ pc' = [pc EXCEPT ![t] = "locked"]
    /\ UNCHANGED <<objVars, histVars, cur, badUnlock, numCreates, crashed>>

T_Body(t) ==
    /\ ~crashed /\ pc[t] = "locked" /\ cur[t].op # "decrypt"
    /\ \E outs \in RemoteCreates(cur[t].uuid, MTCreateOutcomes),
          ovf \in OverflowAt(mHeapSeqNum) :
          LET r == bodyOf(cur[t], outs, numCreates + 1, ovf)
          IN  /\ Apply(r)
              /\ cur' = [cur EXCEPT ![t].ret = r.ret, ![t].calls = r.calls]
    /\ numCreates' = IF cur[t].op = "createPlugin" /\ Supported(cur[t].uuid)
                     THEN numCreates + 1 ELSE numCreates
    /\ Unlock(t)
    /\ pc' = [pc EXCEPT ![t] = "idle"]
    /\ UNCHANGED histVars

T_DecryptChecks(t) ==
    /\ ~crashed /\ pc[t] = "locked" /\ cur[t].op = "decrypt"
    /\ LET chk == decryptChecks(cur[t].din)
       IN  /\ cur' = [cur EXCEPT ![t].ret = chk.ret, ![t].wire = chk.wire]
           /\ pc' = [pc EXCEPT ![t] = IF chk.ok THEN "remote" ELSE "idle"]
    /\ Unlock(t)
    /\ UNCHANGED <<objVars, histVars, numCreates, crashed>>

T_DecryptRemote(t) ==
    /\ ~crashed /\ pc[t] = "remote"
    /\ \E out \in MTDecryptOutcomes :
          LET r == decryptCall(cur[t].wire, out)
          IN  /\ Apply(r)
              /\ cur' = [cur EXCEPT ![t].ret = r.ret, ![t].calls = r.calls]
    /\ pc' = [pc EXCEPT ![t] = "returning"]
    /\ UNCHANGED <<histVars, mLock, badUnlock, numCreates>>

T_DecryptReturn(t) ==
    /\ ~crashed /\ pc[t] = "returning"
    /\ Unlock(t)
    /\ pc' = [pc EXCEPT ![t] = "idle"]
    /\ UNCHANGED <<objVars, histVars, cur, numCreates, crashed>>

NextMT ==
    \E t \in Threads :
        \/ T_Begin(t)
        \/ T_Lock(t)
        \/ T_Body(t)
        \/ T_DecryptChecks(t)
        \/ T_DecryptRemote(t)
        \/ T_DecryptReturn(t)

SpecMT == Init /\ [][NextMT]_vars

---------------------------------------------------------------------------
(* checkSharedBuffer on its own: a ready object with one registered heap   *)
(* of any size, and one buffer of any id, offset and size to check.        *)

AllBuffers == [bufferId : 0 .. SeqMod - 1, offset : 0 .. SIZE_MAX, size : 0 .. SIZE_MAX]

InitCheckOnly ==
    \E h \in 0 .. SIZE_MAX, buffer \in AllBuffers :
        /\ mFactories = <<{1}>>
        /\ mInitCheck = OK
        /\ mPlugin = [call |-> 1, factory |-> 1, v12 |-> FALSE]
        /\ mPluginV1_2 = NULL
        /\ mHeapSeqNum = 1
        /\ mHeapSizes = add(EmptyHeaps, 0, h)
        /\ mLock = 0
        /\ numCreates = 1
        /\ crashed = FALSE
        /\ lastOp = Op("", 0, h, 0, [NoDecIn EXCEPT !.source = buffer], NoCallback, Same)
        /\ issued = <<0>>
        /\ cleared = {}
        /\ pc = [t \in Threads |-> "idle"]
        /\ cur = [t \in Threads |-> NoCall]
        /\ badUnlock = FALSE

CheckSharedBuffer ==
    /\ lastOp.op = ""
    /\ lastOp' = [lastOp EXCEPT !.op = "checkSharedBuffer",
                                !.ret = checkSharedBuffer(lastOp.din.source)]
    /\ UNCHANGED <<objVars, thrVars, numCreates, crashed, issued, cleared>>

SpecCheck == InitCheckOnly /\ [][CheckSharedBuffer]_vars

---------------------------------------------------------------------------
(* The claims.                                                             *)

(* The buffer lies in a registered heap: its id is a key of the registry   *)
(* (as a 32-bit pattern) and offset + size, not reduced, is within the     *)
(* size registered for it.                                                 *)
InHeap(buffer) ==
    \E k \in DOMAIN mHeapSizes :
        /\ (k - buffer.bufferId + SeqMod) % SeqMod = 0
        /\ buffer.offset + buffer.size <= mHeapSizes[k]

DecryptDone == lastOp.op = "decrypt"
Forwarded == lastOp.calls # <<>>
SharedDst == lastOp.din.dstType = "SHARED_MEMORY"

(* C1: a decrypt issues its remote call only when the source buffer lies   *)
(* in a registered heap and, for a SHARED_MEMORY destination, the          *)
(* destination buffer does too; a decrypt made in the ready state whose    *)
(* source or shared destination fails that check returns UNKNOWN_ERROR and *)
(* issues no remote call.                                                  *)
C1_BoundsCheckedBeforeForward ==
    DecryptDone =>
        /\ Forwarded =>
              /\ InHeap(lastOp.din.source)
              /\ SharedDst => InHeap(lastOp.din.destination)
        /\ ( /\ lastOp.pre.init = OK
             /\ \/ ~InHeap(lastOp.din.source)
                \/ SharedDst /\ ~InHeap(lastOp.din.destination) )
           => (lastOp.ret = UNKNOWN_ERROR /\ ~Forwarded)

(* a decrypt with a source in bounds was refused for its shared destination *)
C1_Witness ==
    /\ DecryptDone /\ lastOp.pre.init = OK /\ SharedDst
    /\ InHeap(lastOp.din.source) /\ ~InHeap(lastOp.din.destination)
    /\ lastOp.din.destination.bufferId = 0
    /\ lastOp.ret = UNKNOWN_ERROR /\ ~Forwarded

(* C3 as stated: initCheck() is NO_INIT or OK in every state. *)
C3_TwoStates == initCheck \in {NO_INIT, OK}

(* C3 amended: initCheck() is one of NO_INIT, OK, ERROR_UNSUPPORTED and    *)
(* DEAD_OBJECT in every state.                                             *)
C3_FourStates == initCheck \in {NO_INIT, OK, ERROR_UNSUPPORTED, DEAD_OBJECT}

(* a createPlugin left the object in DEAD_OBJECT *)
C3_Witness == lastOp.op = "createPlugin" /\ initCheck = DEAD_OBJECT

(* C8: checkSharedBuffer returns OK exactly when the buffer's id is a key  *)
(* of the registry and the unbounded sum offset + size is within the size  *)
(* registered; otherwise it returns UNKNOWN_ERROR.                         *)
C8_ExactBounds ==
    lastOp.op = "checkSharedBuffer" =>
        /\ lastOp.ret \in {OK, UNKNOWN_ERROR}
        /\ lastOp.ret = OK <=> InHeap(lastOp.din.source)

(* a buffer whose sum wraps to a value within the heap was refused *)
C8_Witness ==
    /\ lastOp.op = "checkSharedBuffer"
    /\ lastOp.din.source.bufferId = 0
    /\ lastOp.din.source.offset + lastOp.din.source.size > SIZE_MAX
    /\ (lastOp.din.source.offset + lastOp.din.source.size) % WordMod <= mHeapSizes[0]
    /\ lastOp.ret = UNKNOWN_ERROR

(* C2: at most one thread at a time is between its lock acquisition and   *)
(* its return.                                                             *)
C2_OneCallInside == Cardinality({t \in Threads : inside(t)}) <= 1

(* C4: a createPlugin made in NO_INIT returns OK and leaves a plugin       *)
(* installed when some factory that supports the uuid created a plugin,    *)
(* and returns ERROR_UNSUPPORTED with no plugin installed when no factory  *)
(* supports the uuid.                                                      *)
C4_SupportingFactoryWins ==
    (lastOp.op = "createPlugin" /\ lastOp.pre.init = NO_INIT) =>
        /\ lastOp.made # <<>> => (lastOp.ret = OK /\ mPlugin # NULL)
        /\ ~Supported(lastOp.uuid)
           => (lastOp.ret = ERROR_UNSUPPORTED /\ mPlugin = NULL)

(* C5: the values successful setHeapBase calls returned are 0, 1, 2, ...   *)
(* in that order, one counter value consumed by each and none by a failed  *)
(* call; a returned number is a key of the registry with the heap's size;  *)
(* a call with a null heap, a status other than OK or a negative counter   *)
(* returns -1.                                                             *)
C5_SequenceNumbered ==
    ~crashed =>
        /\ \A i \in 1 .. Len(issued) : issued[i] = i - 1
        /\ \/ mHeapSeqNum = Len(issued)
           \/ mHeapSeqNum = INT32_MIN /\ Len(issued) = INT32_MAX + 1
        /\ lastOp.op = "setHeapBase" =>
              /\ lastOp.ret # -1 =>
                    /\ lastOp.ret = issued[Len(issued)]
                    /\ lastOp.ret \in DOMAIN mHeapSizes
                    /\ mHeapSizes[lastOp.ret] = lastOp.heap
              /\ (lastOp.heap = NullHeap \/ lastOp.pre.init # OK \/ lastOp.pre.seq < 0)
                 => (lastOp.ret = -1 /\ mHeapSeqNum = lastOp.pre.seq)

(* a number was handed out after its predecessor was cleared and the       *)
(* plugin was destroyed and created again                                  *)
C5_Witness ==
    /\ lastOp.op = "setHeapBase" /\ ~crashed
    /\ lastOp.ret > 0 /\ (lastOp.ret - 1) \in cleared
    /\ numCreates = 2 /\ mPlugin.call = 2

(* C6: a decrypt that passes the status, mode, destination-type and buffer *)
(* checks issues exactly one remote call, decrypt_1_2 on a 1.2 plugin and  *)
(* decrypt otherwise, on the plugin that the most recent createPlugin that *)
(* found a supporting factory created (a createPlugin whose uuid no        *)
(* factory supports touches nothing and does not count).                   *)
C6_DispatchToCurrentPlugin ==
    ( /\ DecryptDone /\ lastOp.pre.init = OK
      /\ lastOp.din.mode \in {"kMode_Unencrypted", "kMode_AES_CTR", "kMode_AES_WV",
                              "kMode_AES_CBC"}
      /\ lastOp.din.dstType \in {"SHARED_MEMORY", "NATIVE_HANDLE"}
      /\ InHeap(lastOp.din.source)
      /\ SharedDst => InHeap(lastOp.din.destination) )
    => /\ Len(lastOp.calls) = 1
       /\ lastOp.calls[1].target.call = numCreates
       /\ lastOp.calls[1].fn = IF lastOp.calls[1].target.v12 THEN "decrypt_1_2" ELSE "decrypt"

(* The conversion of C7: a forwarded decrypt carries the mode mapped by    *)
(* the table, which is injective, the pattern unchanged and the            *)
(* sub-samples in the same number and order with the same byte counts.     *)
ModeTable ==
    { <<"kMode_Unencrypted", "UNENCRYPTED">>, <<"kMode_AES_CTR", "AES_CTR">>,
      <<"kMode_AES_WV", "AES_CBC_CTS">>, <<"kMode_AES_CBC", "AES_CBC">> }
OtherMode == \A e \in ModeTable : e[1] # lastOp.din.mode

WireForm ==
    /\ Forwarded =>
          LET w == lastOp.calls[1].wire
          IN  /\ <<lastOp.din.mode, w.mode>> \in ModeTable
              /\ w.pattern = lastOp.din.pattern
              /\ Len(w.subSamples) = Len(lastOp.din.subSamples)
              /\ \A i \in 1 .. Len(w.subSamples) :
                    w.subSamples[i] = lastOp.din.subSamples[i]
    /\ \A e, f \in ModeTable : e[2] = f[2] => e[1] = f[1]

(* C7 as stated: the conversion, and a mode outside the table makes        *)
(* decrypt return UNKNOWN_ERROR without a remote call.                     *)
C7_AsStated ==
    DecryptDone =>
        /\ WireForm
        /\ OtherMode => (lastOp.ret = UNKNOWN_ERROR /\ ~Forwarded)

(* C7 amended: the conversion, and a mode outside the table makes a        *)
(* decrypt made while the status is OK return UNKNOWN_ERROR without a      *)
(* remote call; while the status is not OK it returns the status, without  *)
(* a remote call, whatever the mode.                                       *)
C7_SameParametersOnWire ==
    DecryptDone =>
        /\ WireForm
        /\ OtherMode => /\ ~Forwarded
                        /\ lastOp.ret = IF lastOp.pre.init = OK THEN UNKNOWN_ERROR
                                        ELSE lastOp.pre.init

(* a kMode_AES_WV decrypt with two sub-samples was forwarded *)
C7_Witness ==
    /\ DecryptDone /\ Forwarded
    /\ lastOp.din.mode = "kMode_AES_WV"
    /\ lastOp.calls[1].wire.mode = "AES_CBC_CTS"
    /\ Len(lastOp.calls[1].wire.subSamples) = 2
    /\ lastOp.calls[1].wire.pattern = <<1, 9>>

(* C9: while the status is not OK, decrypt, setMediaDrmSession and         *)
(* destroyPlugin return the status, setHeapBase returns -1,                *)
(* requiresSecureDecoderComponent returns false and notifyResolution       *)
(* returns; none issues a remote call or changes the status, the plugin    *)
(* references, the registry or the counter.                                *)
GuardedOps == {"decrypt", "setMediaDrmSession", "destroyPlugin", "setHeapBase",
               "requiresSecureDecoderComponent", "notifyResolution"}

C9_Step ==
    (mInitCheck # OK /\ lastOp'.op \in GuardedOps) =>
        /\ lastOp'.op \in {"decrypt", "setMediaDrmSession", "destroyPlugin"}
           => lastOp'.ret = mInitCheck
        /\ lastOp'.op = "setHeapBase" => lastOp'.ret = -1
        /\ lastOp'.op = "requiresSecureDecoderComponent" => lastOp'.ret = 0
        /\ lastOp'.calls = <<>>
        /\ ~crashed'
        /\ UNCHANGED <<mInitCheck, mPlugin, mPluginV1_2, mHeapSizes, mHeapSeqNum>>

C9_ForwardedOnlyWhenReady == [][C9_Step]_vars

(* a setHeapBase with a heap was refused in NO_INIT while a heap was still *)
(* registered                                                              *)
C9_Witness ==
    /\ lastOp.op = "setHeapBase" /\ lastOp.heap # NullHeap
    /\ lastOp.pre.init = NO_INIT /\ lastOp.ret = -1
    /\ DOMAIN mHeapSizes # {}

(* The decrypt names a cleared sequence number as its source or its       *)
(* shared-memory destination.                                              *)
NamesCleared(op) ==
    \/ toInt32(op.din.source.bufferId) \in cleared
    \/ op.din.dstType = "SHARED_MEMORY" /\ toInt32(op.din.destination.bufferId) \in cleared

(* The step of a clearHeapBase: of a registered number it sends            *)
(* setSharedBufferBase(null, that id) to the installed plugin, if any, and *)
(* removes that entry alone; of any other number it calls nothing and      *)
(* leaves the registry; either way the status, the plugin references and   *)
(* the counter stay.                                                       *)
ClearStep ==
    lastOp'.op = "clearHeapBase" =>
        LET k == lastOp'.seqNum
        IN  /\ IF k \in DOMAIN mHeapSizes
               THEN /\ DOMAIN mHeapSizes' = DOMAIN mHeapSizes \ {k}
                    /\ \A j \in DOMAIN mHeapSizes' : mHeapSizes'[j] = mHeapSizes[j]
                    /\ lastOp'.calls =
                          IF mPlugin = NULL THEN <<>>
                          ELSE <<PluginCall("setSharedBufferBase", mPlugin,
                                            (k + SeqMod) % SeqMod, NullHeap, NoWire)>>
               ELSE mHeapSizes' = mHeapSizes /\ lastOp'.calls = <<>>
            /\ UNCHANGED <<mInitCheck, mPlugin, mPluginV1_2, mHeapSeqNum>>

(* C10 as stated: the step of clearHeapBase, and every later decrypt that  *)
(* names the cleared number returns UNKNOWN_ERROR.                         *)
C10_StepAsStated ==
    /\ ClearStep
    /\ (lastOp'.op = "decrypt" /\ NamesCleared(lastOp')) => lastOp'.ret = UNKNOWN_ERROR

C10_AsStated == [][C10_StepAsStated]_vars

(* C10 amended: the step of clearHeapBase, and every later decrypt that    *)
(* names the cleared number issues no remote call and returns              *)
(* UNKNOWN_ERROR when the status is OK, and the status otherwise.          *)
C10_Step ==
    /\ ClearStep
    /\ (lastOp'.op = "decrypt" /\ NamesCleared(lastOp')) =>
          /\ lastOp'.calls = <<>>
          /\ lastOp'.ret = IF mInitCheck = OK THEN UNKNOWN_ERROR ELSE mInitCheck

C10_ClearRemovesOneEntry == [][C10_Step]_vars

(* a decrypt in the ready state was refused for a source whose heap had    *)
(* been cleared, another heap still being registered                       *)
C10_Witness ==
    /\ DecryptDone /\ lastOp.pre.init = OK
    /\ toInt32(lastOp.din.source.bufferId) \in cleared
    /\ DOMAIN mHeapSizes # {}
    /\ lastOp.ret = UNKNOWN_ERROR /\ ~Forwarded

(* C11: a decrypt returns a byte count only when it was forwarded, the     *)
(* transport succeeded and the callback reported OK, and the count is the  *)
(* one the callback was given; a forwarded decrypt whose transport failed  *)
(* returns DEAD_OBJECT, also when the callback had reported OK; one whose  *)
(* transport succeeded returns the translated status when the callback     *)
(* reported a status other than OK, and UNKNOWN_ERROR when the callback    *)
(* did not run.                                                            *)
C11_ResultReflectsRemote ==
    (DecryptDone /\ ~crashed) =>
        LET o == lastOp.out
        IN  /\ lastOp.ret >= 0 =>
                  /\ Forwarded
                  /\ o.transport /\ o.cb /\ o.status = "OK"
                  /\ lastOp.ret = o.bytes
            /\ Forwarded =>
                  /\ ~o.transport => lastOp.ret = DEAD_OBJECT
                  /\ (o.transport /\ o.cb /\ o.status = "ERROR_DRM_NO_LICENSE")
                     => lastOp.ret = ERROR_DRM_NO_LICENSE
                  /\ (o.transport /\ o.cb /\ o.status # "OK")
                     => (lastOp.ret = toStatusT(o.status) /\ lastOp.ret < 0)
                  /\ (o.transport /\ ~o.cb) => lastOp.ret = UNKNOWN_ERROR

(* a forwarded decrypt whose callback reported OK returned DEAD_OBJECT for *)
(* its failed transport                                                    *)
C11_Witness ==
    /\ DecryptDone /\ Forwarded
    /\ ~lastOp.out.transport /\ lastOp.out.cb /\ lastOp.out.status = "OK"
    /\ lastOp.ret = DEAD_OBJECT

ValidMode == ~OtherMode
KnownDstType == lastOp.din.dstType \in {"SHARED_MEMORY", "NATIVE_HANDLE"}

(* The secure flag of C12: a forwarded decrypt carries secure = false      *)
(* exactly for a SHARED_MEMORY destination and secure = true exactly for a *)
(* NATIVE_HANDLE one; a NATIVE_HANDLE decrypt is forwarded only with its   *)
(* source in a registered heap, and, made in the ready state with a mode   *)
(* of the table and such a source, it is forwarded wherever its            *)
(* destination buffer lies.                                                *)
SecureFlag ==
    /\ Forwarded =>
          /\ KnownDstType
          /\ lastOp.calls[1].wire.secure = FALSE <=> lastOp.din.dstType = "SHARED_MEMORY"
          /\ lastOp.calls[1].wire.secure = TRUE <=> lastOp.din.dstType = "NATIVE_HANDLE"
    /\ lastOp.din.dstType = "NATIVE_HANDLE" =>
          /\ Forwarded => InHeap(lastOp.din.source)
          /\ (lastOp.pre.init = OK /\ ValidMode /\ InHeap(lastOp.din.source)) => Forwarded

(* C12 as stated: the secure flag, and a destination of any other type     *)
(* makes decrypt return UNKNOWN_ERROR without a remote call.               *)
C12_AsStated ==
    (DecryptDone /\ ~crashed) =>
        /\ SecureFlag
        /\ ~KnownDstType => (lastOp.ret = UNKNOWN_ERROR /\ ~Forwarded)

(* C12 amended: the secure flag, and a destination of any other type makes *)
(* decrypt issue no remote call and return UNKNOWN_ERROR when the status   *)
(* is OK, and the status otherwise.                                        *)
C12_SecureFromDestinationType ==
    (DecryptDone /\ ~crashed) =>
        /\ SecureFlag
        /\ ~KnownDstType =>
              /\ ~Forwarded
              /\ lastOp.ret = IF lastOp.pre.init = OK THEN UNKNOWN_ERROR ELSE lastOp.pre.init

(* a decrypt to a native handle was forwarded as secure with a destination *)
(* buffer that lies in no registered heap                                  *)
C12_Witness ==
    /\ DecryptDone /\ Forwarded
    /\ lastOp.din.dstType = "NATIVE_HANDLE"
    /\ lastOp.calls[1].wire.secure = TRUE
    /\ ~InHeap(lastOp.din.destination)
    /\ InHeap(lastOp.din.source)

(* C13: a destroyPlugin made while the status is OK clears mPlugin and     *)
(* mPluginV1_2, sets the status to NO_INIT and returns OK; the createPlugin *)
(* that follows it, when a factory that supports the uuid created a        *)
(* plugin, returns OK and leaves a plugin of that call installed.          *)
C13_Step ==
    /\ (mInitCheck = OK /\ lastOp'.op = "destroyPlugin") =>
          /\ mPlugin' = NULL /\ mPluginV1_2' = NULL
          /\ mInitCheck' = NO_INIT
          /\ lastOp'.ret = OK
    /\ ( /\ lastOp.op = "destroyPlugin" /\ lastOp.ret = OK
         /\ lastOp'.op = "createPlugin" /\ lastOp'.made # <<>> ) =>
          /\ lastOp'.ret = OK
          /\ mPlugin' # NULL
          /\ mPlugin'.call = numCreates'

C13_DestroyThenCreate == [][C13_Step]_vars

(* C14: in every state where the status is OK a plugin is installed (so   *)
(* that no guarded operation, which tests the status alone, calls through  *)
(* a null mPlugin).                                                        *)
C14_PluginWhenReady == mInitCheck = OK => mPlugin # NULL

(* C15: no unlock is performed on the mutex while it is unlocked or held   *)
(* by another thread.                                                      *)
C15_UnlockByHolder == ~badUnlock

(* C16: while a decrypt is between its checks and the completion of its    *)
(* remote call, no step removes the registry entry its source was checked  *)
(* against or changes mPlugin or mPluginV1_2; and the remote call is made  *)
(* through a plugin reference that is not null, with a source bufferId     *)
(* that is registered.                                                     *)
C16_Step ==
    \A t \in Threads :
        LET k == toInt32(cur[t].wire.source.bufferId)
        IN  /\ (pc[t] = "remote" /\ pc'[t] = "remote") =>
                  /\ k \in DOMAIN mHeapSizes => k \in DOMAIN mHeapSizes'
                  /\ UNCHANGED <<mPlugin, mPluginV1_2>>
            /\ (pc[t] = "remote" /\ pc'[t] = "returning") =>
                  /\ ~crashed'
                  /\ k \in DOMAIN mHeapSizes

C16_ValidatedStillTrue == [][C16_Step]_vars

=============================================================================
